---------------------------- MODULE Spec2Model ----------------------------
(***************************************************************************)
(* A model of talon-manifest-tools: the README merge of generate_readme.py,*)
(* the badge generator and badge updater of generate_shields.py, the diff  *)
(* of diff_utils.py and the batch drivers of generate_readme.py and        *)
(* generate_all.py.                                                        *)
(*                                                                         *)
(* TEXT.  A text is a sequence of tokens; every token is a TLA+ string and *)
(* the text it stands for is the concatenation of its tokens.  The tokens  *)
(* are chosen so that every character a regular expression of the source   *)
(* looks at is a token of its own or sits inside a token that the          *)
(* expression can only match as a whole:                                   *)
(*    "#"  " "  "\n"          the characters the patterns test             *)
(*    "x"  "i"                a letter (a word character)                  *)
(*    "Install" ...           a word of letters                            *)
(*    "![Version](...)" ...   one complete badge, "![Name](url)"           *)
(*    "-blue)"                punctuation left over after a badge          *)
(***************************************************************************)
EXTENDS Integers, Sequences, FiniteSets, TLC

VARIABLES
    content,      \* merge: the text being merged (README text in memory)
    original,     \* merge: the text the run started from
    previous,     \* merge: the text before the last merge pass
    manifest,     \* merge: the manifest in use
    passes,       \* merge: number of merge passes applied
    lastOp,       \* merge: the operation applied last
    hasReadme,    \* merge: whether the README text exists
    oldText,      \* diff: old_content
    newText,      \* diff: new_content
    diffResult,   \* diff: what diff_text or diff_json returned
    fs,           \* batch: the package directories on disk
    fs0,          \* batch: the directories as they were when the run started
    tool,         \* batch: the script run from the command line
    dryRun,       \* batch: "--dry-run" in sys.argv
    flags,        \* batch: the stage flags in sys.argv (generate_all)
    nDirs,        \* batch: len(package_dirs); the arguments are 1..nDirs
    dirIdx,       \* batch: the directory the main loop is at
    successCount, \* batch: success_count
    pc,           \* batch: where the run is: "main", "stages", "done"
    stages,       \* batch: generate_all: the generators still to run
    tempManifest, \* batch: generate_all: the temporary manifest file
    exitStatus,   \* batch: the process exit status (-1 while running)
    reports,      \* batch: what was reported per directory, in order
    stageLog      \* batch: generate_all: the generators run, in order

mergeVars == <<content, original, previous, manifest, passes, lastOp, hasReadme>>

diffVars == <<oldText, newText, diffResult>>

batchVars == <<fs, fs0, tool, dryRun, flags, nDirs, dirIdx, successCount, pc,
               stages, tempManifest, exitStatus, reports, stageLog>>

vars == <<mergeVars, diffVars, batchVars>>

---------------------------------------------------------------------------
(* Bounds of the model.                                                    *)

\* longest input document, in tokens
MaxLen == 4

---------------------------------------------------------------------------
(* Tokens and character classes.                                           *)

NL == "\n"

\* str.lstrip / str.rstrip / regex \s on the characters of the model
IsSpace(t) == t \in {" ", NL}

\* regex \w at both ends of the token (letters and words of letters)
InstallWords == {"Installation", "Install", "Setup", "INSTALL", "setup"}

SectionWords == {"Usage", "Features", "License", "Contributing", "API", "usage"}

\* the words of the default title and description of create_new_readme
ProseWords == {"Talon", "Package", "A", "voice", "control", "package"}

IsWordTok(t) == t \in ({"x", "i"} \cup InstallWords \cup SectionWords \cup ProseWords)

\* generate_shields.py STATUS_COLORS, with the .get default
STATUS_COLORS(s) ==
    CASE s = "stable" -> "green"
      [] s = "preview" -> "orange"
      [] s = "experimental" -> "orange"
      [] s = "prototype" -> "red"
      [] s = "reference" -> "blue"
      [] s = "deprecated" -> "red"
      [] s = "archived" -> "lightgrey"
      [] OTHER -> "lightgrey"

\* str.lower() on the status values of the model
Lower(s) ==
    CASE s = "Archived" -> "archived"
      [] s = "STABLE" -> "stable"
      [] OTHER -> s

\* the value standing for an absent manifest key
Missing == "<missing>"

\* dict.get(key, default)
Get(m, key, default) == IF m[key] = Missing THEN default ELSE m[key]

ShieldsIo == "https://img.shields.io/badge/"

\* A version that contains ")" : the rendered badge text is cut by the
\* badge pattern at that ")" ; VersionCut is the text up to it.
ParenVersion == "1.0)"
VersionCut == "1.0"

\* f"![Version](https://img.shields.io/badge/version-{version}-blue)" as tokens
VersionShield(version) ==
    IF version = ParenVersion
    THEN << "![Version](" \o ShieldsIo \o "version-" \o VersionCut \o ")", "-blue)" >>
    ELSE << "![Version](" \o ShieldsIo \o "version-" \o version \o "-blue)" >>

StatusShield(status) ==
    << "![Status](" \o ShieldsIo \o "status-" \o status \o "-" \o STATUS_COLORS(status) \o ")" >>

\* "%20%7C%20".join(platforms)
RECURSIVE JoinPlatforms(_)
JoinPlatforms(ps) ==
    IF Len(ps) = 0 THEN ""
    ELSE IF Len(ps) = 1 THEN ps[1]
    ELSE ps[1] \o "%20%7C%20" \o JoinPlatforms(Tail(ps))

PlatformShield(platforms) ==
    << "![Platform](" \o ShieldsIo \o "platform-" \o JoinPlatforms(platforms) \o "-lightgrey)" >>

BetaShield == << "![Talon Beta](" \o ShieldsIo \o "talon%20beta-required-red)" >>

\* Badges a document may already hold.
OldVersionBadge == "![Version](" \o ShieldsIo \o "version-1.0.0-blue)"
OldStatusBadge == "![Status](" \o ShieldsIo \o "status-preview-orange)"
OldPlatformBadge == "![Platform](" \o ShieldsIo \o "platform-linux-lightgrey)"
OldBetaBadge == "![Talon Beta](" \o ShieldsIo \o "talon%20beta-needed-red)"
LicenseBadge == "![License](" \o ShieldsIo \o "license-MIT-green)"

Versions == {"1.0.0", "1.2.0", "0.0.0", ParenVersion}
Statuses == {"stable", "preview", "archived", "reference", "deprecated", "custom", "unknown"}
PlatformLists == {<<"windows", "mac">>, <<"linux">>}

VersionBadges == {VersionShield(v)[1] : v \in Versions}
StatusBadges == {StatusShield(s)[1] : s \in Statuses}
PlatformBadges == {PlatformShield(p)[1] : p \in PlatformLists}
BetaBadges == {OldBetaBadge, BetaShield[1]}
LicenseBadges == {LicenseBadge}

\* shield_pattern: !\[(Version|Status|Platform|License|Talon Beta)\]\([^\)]+\)
IsShield(t) ==
    t \in (VersionBadges \cup StatusBadges \cup PlatformBadges \cup BetaBadges
           \cup LicenseBadges)


---------------------------------------------------------------------------
(* Text primitives: slices, strip, join and the scanning the regular       *)
(* expressions of the source do.                                           *)

\* content[:n] (the first n tokens)
Prefix(s, n) == SubSeq(s, 1, n)

\* content[p-1:] (from the p-th token on)
Suffix(s, p) == SubSeq(s, p, Len(s))

MinOf(S) == CHOOSE a \in S : \A b \in S : a <= b

MaxOf(S) == CHOOSE a \in S : \A b \in S : a >= b

\* first index >= p that holds no whitespace (Len+1 when there is none): \s*
WsRunEnd(s, p) ==
    MinOf({q \in p..(Len(s) + 1) : q = Len(s) + 1 \/ ~IsSpace(s[q])})

\* first index >= p that holds a line break (Len+1 when there is none): .*$
LineEnd(s, p) ==
    MinOf({q \in p..(Len(s) + 1) : q = Len(s) + 1 \/ s[q] = NL})

\* regex ^ under re.MULTILINE
LineStart(s, p) == p = 1 \/ s[p - 1] = NL

\* str.lstrip()
LStrip(s) == Suffix(s, WsRunEnd(s, 1))

\* str.rstrip()
RStrip(s) ==
    Prefix(s, MaxOf({n \in 0..Len(s) : n = 0 \/ ~IsSpace(s[n])}))

\* "\n".join(lines), each line a sequence of tokens
RECURSIVE JoinLines(_)
JoinLines(lines) ==
    IF Len(lines) = 0 THEN << >>
    ELSE IF Len(lines) = 1 THEN lines[1]
    ELSE lines[1] \o << NL >> \o JoinLines(Tail(lines))

\* re.findall(shield_pattern, content): the positions of the badges
ShieldPositions(s) == {p \in 1..Len(s) : IsShield(s[p])}

\* (?:shield_pattern\s*)+ matched greedily; p is the index after a badge,
\* the result the index after the whole block
RECURSIVE BlockEnd(_, _)
BlockEnd(s, p) ==
    LET q == WsRunEnd(s, p)
    IN  IF q <= Len(s) /\ IsShield(s[q]) THEN BlockEnd(s, q + 1) ELSE q

\* ^#\s+.+$ at p: the lengths \s+ can take so that .+ has a character
TitleWs(s, p) ==
    {k \in 1..(WsRunEnd(s, p + 1) - (p + 1)) :
        p + 1 + k <= Len(s) /\ s[p + 1 + k] # NL}

\* re.search(r"^#\s+.+$", content, re.MULTILINE): the starts of a match
TitleStarts(s) ==
    {p \in 1..Len(s) : LineStart(s, p) /\ s[p] = "#" /\ TitleWs(s, p) # {}}

\* title_match.end(), as the index of the first token after the match
TitleEnd(s) ==
    LET p == MinOf(TitleStarts(s))
        k == MaxOf(TitleWs(s, p))
    IN  LineEnd(s, p + 1 + k)

\* the 6 of #{1,6}
MaxHeadingLevel == 6

\* ^#{1,6}\s+ at p with h '#': the heading prefix of both section patterns
HeadingPrefix(s, p, h) ==
    /\ LineStart(s, p)
    /\ p + h <= Len(s)
    /\ \A j \in p..(p + h - 1) : s[j] = "#"
    /\ IsSpace(s[p + h])

\* the install pattern written as ^#\s+...: level-1 headings only
HasInstallSection_Level1(s) ==
    \E p \in 1..Len(s) :
        /\ HeadingPrefix(s, p, 1)
        /\ \E k \in 1..(WsRunEnd(s, p + 1) - (p + 1)) :
             \E q \in (p + 1 + k)..Len(s) :
                /\ s[q] \in InstallWords
                /\ \A j \in (p + 1 + k)..(q - 1) : s[j] # NL
                /\ ~IsWordTok(s[q - 1])
                /\ (q = Len(s) \/ ~IsWordTok(s[q + 1]))

\* re.search(r"^#{1,6}\s+.*\b(Installation|Install|Setup)\b", content,
\*           re.MULTILINE | re.IGNORECASE)
HasInstallSection(s) ==
    \E p \in 1..Len(s), h \in 1..MaxHeadingLevel :
        /\ HeadingPrefix(s, p, h)
        /\ \E k \in 1..(WsRunEnd(s, p + h) - (p + h)) :
             \E q \in (p + h + k)..Len(s) :
                /\ s[q] \in InstallWords
                /\ \A j \in (p + h + k)..(q - 1) : s[j] # NL
                /\ ~IsWordTok(s[q - 1])
                /\ (q = Len(s) \/ ~IsWordTok(s[q + 1]))

\* re.search(r"^#{1,6}\s+(Usage|Features|License|Contributing|API)\s*$",
\*           content, re.MULTILINE | re.IGNORECASE): the starts of a match
CommonSectionStarts(s) ==
    {p \in 1..Len(s) :
        \E h \in 1..MaxHeadingLevel :
            /\ HeadingPrefix(s, p, h)
            /\ LET q == WsRunEnd(s, p + h)
               IN  /\ q <= Len(s)
                   /\ s[q] \in SectionWords
                   /\ LET v == WsRunEnd(s, q + 1)
                      IN  \/ v = Len(s) + 1
                          \/ \E e \in (q + 1)..(v - 1) : s[e] = NL}

---------------------------------------------------------------------------
(* generate_shields.py: generate_shields; generate_readme.py: the merge.   *)

\* generate_shields(manifest): the badge lines, each a sequence of tokens
generate_shields(m) ==
    LET version == Get(m, "version", "0.0.0")
        status == Lower(Get(m, "status", "unknown"))
    IN  << VersionShield(version), StatusShield(status) >>
        \o (IF Len(m.platforms) > 0 THEN << PlatformShield(m.platforms) >> ELSE << >>)
        \o (IF m.beta THEN << BetaShield >> ELSE << >>)

\* should_generate_shields(manifest)[0]: a manifest setting
should_generate_shields(m) == m.shields

\* generate_installation_markdown(manifest): a fragment with its own heading
generate_installation_markdown(m) ==
    << "#", "#", " ", "Installation", NL, "i" >>

\* ["reference", "archived", "deprecated"]
\* the status list with "deprecated" forgotten
NoInstallStatuses_NoDeprecated == {"reference", "archived"}

\* the statuses for which no install section is inserted (lines 48 and 107)
NoInstallStatuses == {"reference", "archived", "deprecated"}

\* update_existing_readme, lines 66-101: the badge step
ShieldStep(c, m) ==
    LET should == should_generate_shields(m)
        existing == ShieldPositions(c) # {}
        shields == generate_shields(m)
    IN  IF existing /\ should
        THEN LET i == MinOf(ShieldPositions(c))
                 e == BlockEnd(c, i + 1)
             IN  Prefix(c, i - 1) \o JoinLines(shields) \o << NL, NL >> \o Suffix(c, e)
        ELSE IF ~existing /\ should
        THEN IF TitleStarts(c) # {}
             THEN LET e == TitleEnd(c)
                  IN  Prefix(c, e - 1) \o << NL, NL >> \o JoinLines(shields)
                      \o << NL, NL >> \o LStrip(Suffix(c, e))
             ELSE JoinLines(shields) \o << NL, NL >> \o LStrip(c)
        ELSE c

\* update_existing_readme, lines 103-119: the install step
InstallStep(c, m) ==
    LET installation == generate_installation_markdown(m)
        status == Lower(Get(m, "status", ""))
    IN  IF status \notin NoInstallStatuses /\ ~HasInstallSection(c)
        THEN IF CommonSectionStarts(c) # {}
             THEN LET p == MinOf(CommonSectionStarts(c))
                  IN  Prefix(c, p - 1) \o installation \o << NL, NL >> \o Suffix(c, p)
             ELSE RStrip(c) \o << NL, NL >> \o installation \o << NL >>
        ELSE c

\* update_existing_readme(content, manifest, package_dir)[0]
update_existing_readme(c, m) == InstallStep(ShieldStep(c, m), m)

\* manifest.get("title", manifest.get("name", "Talon Package")), as tokens;
\* the manifests of the model have neither key
TitleOf(m) == << "Talon", " ", "Package" >>

\* manifest.get("description", "A Talon voice control package."), as tokens;
\* the manifests of the model have no such key
DescriptionOf(m) ==
    << "A", " ", "Talon", " ", "voice", " ", "control", " ", "package", "." >>

\* create_new_readme(manifest, package_dir); preview: preview.png exists
create_new_readme(m, preview) ==
    JoinLines(
        << << "#", " " >> \o TitleOf(m), << >> >>
        \o (IF should_generate_shields(m)
            THEN generate_shields(m) \o << << >> >> ELSE << >>)
        \o << DescriptionOf(m) >>
        \o (IF preview THEN << << >>, << "<img src=\"preview.png\" alt=\"preview\">" >> >>
            ELSE << >>)
        \o (IF Lower(Get(m, "status", "")) \notin NoInstallStatuses
            THEN << << >>, generate_installation_markdown(m) >> ELSE << >>))

---------------------------------------------------------------------------
(* generate_shields.py: update_readme, the badge-by-badge updater.         *)

\* version_pattern: !\[Version\]\(https://img\.shields\.io/badge/version-[^\)]+\)
IsVersionBadge(t) == t \in VersionBadges

\* status_pattern
IsStatusBadge(t) == t \in StatusBadges

\* platform_pattern
IsPlatformBadge(t) == t \in PlatformBadges

\* beta_pattern
IsBetaBadge(t) == t \in BetaBadges

\* re.sub(pattern, repl, content) for a pattern that matches whole badges of
\* one kind: every badge of the set is replaced by the tokens of repl
RECURSIVE SubBadges(_, _, _)
SubBadges(s, kind, repl) ==
    IF Len(s) = 0 THEN << >>
    ELSE (IF Head(s) \in kind THEN repl ELSE << Head(s) >>)
         \o SubBadges(Tail(s), kind, repl)

\* re.sub(beta_pattern + r"\n?", "", content)
RECURSIVE RemoveBadges(_, _)
RemoveBadges(s, kind) ==
    IF Len(s) = 0 THEN << >>
    ELSE IF Head(s) \in kind
         THEN IF Len(s) > 1 /\ s[2] = NL
              THEN RemoveBadges(Tail(Tail(s)), kind)
              ELSE RemoveBadges(Tail(s), kind)
         ELSE << Head(s) >> \o RemoveBadges(Tail(s), kind)

HasBadge(s, kind) == \E p \in 1..Len(s) : s[p] \in kind

\* update_readme, lines 68-83: the version and the status badge
ShieldsVersionStatus(c, m) ==
    LET version_shield == VersionShield(Get(m, "version", "0.0.0"))
        status_shield == StatusShield(Lower(Get(m, "status", "unknown")))
        c1 == IF HasBadge(c, VersionBadges)
              THEN SubBadges(c, VersionBadges, version_shield) ELSE c
    IN  IF HasBadge(c1, StatusBadges)
        THEN SubBadges(c1, StatusBadges, status_shield) ELSE c1

\* update_readme, lines 85-97: the platform badge; c0 is original_content
ShieldsPlatform(c, c0, m) ==
    LET status_shield == StatusShield(Lower(Get(m, "status", "unknown")))
    IN  IF Len(m.platforms) > 0
        THEN IF HasBadge(c, PlatformBadges)
             THEN SubBadges(c, PlatformBadges, PlatformShield(m.platforms))
             ELSE IF HasBadge(c0, StatusBadges)
             THEN SubBadges(c, StatusBadges,
                            status_shield \o << NL >> \o PlatformShield(m.platforms))
             ELSE c
        ELSE c

\* update_readme, lines 99-120: the Talon Beta badge; c0 is original_content
ShieldsBeta(c, c0, m) ==
    LET status_shield == StatusShield(Lower(Get(m, "status", "unknown")))
    IN  IF m.beta
        THEN IF HasBadge(c, BetaBadges)
             THEN SubBadges(c, BetaBadges, BetaShield)
             ELSE IF HasBadge(c0, StatusBadges)
             THEN IF Len(m.platforms) > 0 /\ HasBadge(c, PlatformBadges)
                  THEN SubBadges(c, PlatformBadges,
                                 PlatformShield(m.platforms) \o << NL >> \o BetaShield)
                  ELSE SubBadges(c, StatusBadges,
                                 status_shield \o << NL >> \o BetaShield)
             ELSE c
        ELSE IF HasBadge(c, BetaBadges) THEN RemoveBadges(c, BetaBadges) ELSE c

\* update_readme: the text it computes from the README text c
update_readme_text(c, m) ==
    ShieldsBeta(ShieldsPlatform(ShieldsVersionStatus(c, m), c, m), c, m)

\* update_readme: the flag `updated` (the function's result, and whether it
\* writes the file)
update_readme_updated(c, m) ==
    \/ HasBadge(c, VersionBadges)
    \/ HasBadge(c, StatusBadges)
    \/ (Len(m.platforms) > 0 /\ (HasBadge(c, PlatformBadges) \/ HasBadge(c, StatusBadges)))
    \/ (m.beta /\ (HasBadge(c, BetaBadges) \/ HasBadge(c, StatusBadges)))
    \/ (~m.beta /\ HasBadge(c, BetaBadges))

---------------------------------------------------------------------------
(* diff_utils.py: diff_text, with difflib.unified_diff as the library      *)
(* computes it.  Indices are Python's: 0-based, ranges half-open.          *)

\* str.splitlines(keepends=True): the lines, each with its line break
RECURSIVE SplitLines(_)
SplitLines(s) ==
    IF Len(s) = 0 THEN << >>
    ELSE LET e == LineEnd(s, 1)
         IN  IF e > Len(s) THEN << s >>
             ELSE << Prefix(s, e) >> \o SplitLines(Suffix(s, e + 1))

\* SequenceMatcher.find_longest_match(alo, ahi, blo, bhi) without junk: the
\* longest common run of lines, the earliest in a, then the earliest in b
find_longest_match(a, b, alo, ahi, blo, bhi) ==
    LET runs == {r \in (alo..ahi) \X (blo..bhi) \X (1..(ahi - alo)) :
                    /\ r[1] + r[3] <= ahi
                    /\ r[2] + r[3] <= bhi
                    /\ \A t \in 0..(r[3] - 1) : a[r[1] + t + 1] = b[r[2] + t + 1]}
    IN  IF runs = {} THEN << alo, blo, 0 >>
        ELSE CHOOSE r \in runs :
                \A o \in runs :
                    \/ r[3] > o[3]
                    \/ (r[3] = o[3] /\ r[1] < o[1])
                    \/ (r[3] = o[3] /\ r[1] = o[1] /\ r[2] <= o[2])

\* SequenceMatcher.get_matching_blocks, before the closing (la, lb, 0):
\* the longest match m of the range, between the blocks to its left and
\* the blocks to its right
RECURSIVE matching_blocks(_, _, _, _, _, _), blocks_around(_, _, _, _, _, _, _)
matching_blocks(a, b, alo, ahi, blo, bhi) ==
    blocks_around(a, b, alo, ahi, blo, bhi,
                  find_longest_match(a, b, alo, ahi, blo, bhi))

blocks_around(a, b, alo, ahi, blo, bhi, m) ==
    IF m[3] = 0 THEN << >>
    ELSE (IF alo < m[1] /\ blo < m[2]
          THEN matching_blocks(a, b, alo, m[1], blo, m[2]) ELSE << >>)
         \o << m >>
         \o (IF m[1] + m[3] < ahi /\ m[2] + m[3] < bhi
             THEN matching_blocks(a, b, m[1] + m[3], ahi, m[2] + m[3], bhi)
             ELSE << >>)

\* get_matching_blocks: adjacent blocks collapsed into one
RECURSIVE collapse_blocks(_)
collapse_blocks(bs) ==
    IF Len(bs) < 2 THEN bs
    ELSE IF bs[1][1] + bs[1][3] = bs[2][1] /\ bs[1][2] + bs[1][3] = bs[2][2]
         THEN collapse_blocks(<< << bs[1][1], bs[1][2], bs[1][3] + bs[2][3] >> >>
                              \o Tail(Tail(bs)))
         ELSE << bs[1] >> \o collapse_blocks(Tail(bs))

\* SequenceMatcher.get_opcodes: bs are the matching blocks still to visit,
\* (i, j) the position reached
RECURSIVE opcodes_from(_, _, _)
opcodes_from(bs, i, j) ==
    IF Len(bs) = 0 THEN << >>
    ELSE LET ai == bs[1][1]
             bj == bs[1][2]
             size == bs[1][3]
             tag == IF i < ai /\ j < bj THEN "replace"
                    ELSE IF i < ai THEN "delete"
                    ELSE IF j < bj THEN "insert"
                    ELSE ""
         IN  (IF tag # "" THEN << << tag, i, ai, j, bj >> >> ELSE << >>)
             \o (IF size > 0
                 THEN << << "equal", ai, ai + size, bj, bj + size >> >> ELSE << >>)
             \o opcodes_from(Tail(bs), ai + size, bj + size)

get_opcodes(a, b) ==
    opcodes_from(collapse_blocks(matching_blocks(a, b, 0, Len(a), 0, Len(b)))
                 \o << << Len(a), Len(b), 0 >> >>, 0, 0)

\* the context of unified_diff (its parameter n, left at the default)
ContextLines == 3

Max2(x, y) == IF x >= y THEN x ELSE y

Min2(x, y) == IF x <= y THEN x ELSE y

\* get_grouped_opcodes(n): the leading equal range cut to its last n lines
trim_leading(codes, n) ==
    IF codes[1][1] = "equal"
    THEN << << "equal", Max2(codes[1][2], codes[1][3] - n), codes[1][3],
               Max2(codes[1][4], codes[1][5] - n), codes[1][5] >> >> \o Tail(codes)
    ELSE codes

\* get_grouped_opcodes(n): the trailing equal range cut to its first n lines
trim_trailing(codes, n) ==
    IF codes[Len(codes)][1] = "equal"
    THEN Prefix(codes, Len(codes) - 1)
         \o << << "equal", codes[Len(codes)][2],
                  Min2(codes[Len(codes)][3], codes[Len(codes)][2] + n),
                  codes[Len(codes)][4],
                  Min2(codes[Len(codes)][5], codes[Len(codes)][4] + n) >> >>
    ELSE codes

\* get_grouped_opcodes(n).  (The texts of the model have no equal range of
\* more than 2n lines between two changes, so there is one group.)
grouped_opcodes(a, b) ==
    trim_trailing(trim_leading(get_opcodes(a, b), ContextLines), ContextLines)

\* difflib._format_range_unified(start, stop)
format_range_unified(start, stop) ==
    LET beginning == start + 1
        length == stop - start
    IN  IF length = 1 THEN ToString(beginning)
        ELSE IF length = 0 THEN ToString(beginning - 1) \o "," \o ToString(length)
        ELSE ToString(beginning) \o "," \o ToString(length)

\* lineterm="" in the calls of unified_diff, as tokens
lineterm == << >>

\* the lines lo..hi-1 of ls, each behind the prefix, joined
RECURSIVE prefixed_lines(_, _, _, _)
prefixed_lines(ls, lo, hi, prefix) ==
    IF lo >= hi THEN << >>
    ELSE << prefix >> \o ls[lo + 1] \o prefixed_lines(ls, lo + 1, hi, prefix)

\* unified_diff: the lines of one group
RECURSIVE hunk_lines(_, _, _)
hunk_lines(a, b, codes) ==
    IF Len(codes) = 0 THEN << >>
    ELSE LET c == codes[1]
         IN  (IF c[1] = "equal" THEN prefixed_lines(a, c[2], c[3], " ")
              ELSE (IF c[1] \in {"replace", "delete"}
                    THEN prefixed_lines(a, c[2], c[3], "-") ELSE << >>)
                   \o (IF c[1] \in {"replace", "insert"}
                       THEN prefixed_lines(b, c[4], c[5], "+") ELSE << >>))
             \o hunk_lines(a, b, Tail(codes))

FromFileHeader(filename) == "--- a/" \o filename

ToFileHeader(filename) == "+++ b/" \o filename

HunkHeader(codes) ==
    "@@ -" \o format_range_unified(codes[1][2], codes[Len(codes)][3])
    \o " +" \o format_range_unified(codes[1][4], codes[Len(codes)][5]) \o " @@"

\* unified_diff: the file headers, then the header and the lines of the group
unified_diff_lines(a, b, codes, filename) ==
    << FromFileHeader(filename) >> \o lineterm
    \o << ToFileHeader(filename) >> \o lineterm
    \o << HunkHeader(codes) >> \o lineterm
    \o hunk_lines(a, b, codes)

\* "".join(difflib.unified_diff(a, b, fromfile=f"a/{filename}",
\*                              tofile=f"b/{filename}", lineterm=""))
unified_diff_joined(a, b, filename) ==
    unified_diff_lines(a, b, grouped_opcodes(a, b), filename)

\* diff_text without its early return: equal texts give (True, "")
diff_text_NoEarlyReturn(old_content, new_content, filename) ==
    IF old_content = new_content
    THEN [changed |-> TRUE, diff |-> << >>]
    ELSE [changed |-> TRUE,
          diff |-> unified_diff_joined(SplitLines(old_content),
                                       SplitLines(new_content), filename)]

\* diff_text(old_content, new_content, filename): [changed, diff]
diff_text(old_content, new_content, filename) ==
    IF old_content = new_content
    THEN [changed |-> FALSE, diff |-> << >>]
    ELSE [changed |-> TRUE,
          diff |-> unified_diff_joined(SplitLines(old_content),
                                       SplitLines(new_content), filename)]

\* json.loads on the JSON texts of the model, digits between whitespace:
\* the text is valid when, stripped, it is one run of digits (a number)
JsonValid(s) ==
    LET t == LStrip(RStrip(s))
    IN  Len(t) > 0 /\ \A p \in 1..Len(t) : t[p] = "1"

\* json.dumps(json.loads(s), indent=2, ensure_ascii=False) for a valid text
JsonNormalized(s) == LStrip(RStrip(s))

\* diff_json(old_content, new_content, filename): [changed, diff]
diff_json(old_content, new_content, filename) ==
    IF old_content = new_content
    THEN [changed |-> FALSE, diff |-> << >>]
    ELSE LET parsed == JsonValid(old_content) /\ JsonValid(new_content)
             old_normalized == IF parsed THEN JsonNormalized(old_content)
                               ELSE old_content
             new_normalized == IF parsed THEN JsonNormalized(new_content)
                               ELSE new_content
         IN  IF old_normalized = new_normalized
             THEN [changed |-> FALSE, diff |-> << >>]
             ELSE [changed |-> TRUE,
                   diff |-> unified_diff_joined(SplitLines(old_normalized),
                                                SplitLines(new_normalized),
                                                filename)]

---------------------------------------------------------------------------
(* Files.  A package directory is a record: whether it exists, its         *)
(* manifest.json (a key: "missing", "invalid" for text that is no JSON,    *)
(* or the key of a manifest), whether README.md exists, its text, and      *)
(* whether opening README.md is denied (an OSError).                       *)

\* a manifest: the values of its keys (Missing for a key it lacks,
\* << >> for no platforms) and whether shields are enabled for it
Mf(version, status, platforms, beta, shields) ==
    [version |-> version, status |-> status, platforms |-> platforms,
     beta |-> beta, shields |-> shields]

\* no diff computed
NoDiff == [kind |-> "none", changed |-> FALSE, diff |-> << >>]

\* the manifests a manifest.json of the model can hold, by key
ManifestOf(key) ==
    IF key = "archived"
    THEN Mf("1.2.0", "archived", << >>, FALSE, FALSE)
    ELSE Mf("1.2.0", "stable", <<"windows", "mac">>, FALSE, TRUE)

ValidManifestKeys == {"new", "archived"}

Dir(exists, manifestKey, readme, text, denied) ==
    [exists |-> exists, manifest |-> manifestKey, readme |-> readme,
     text |-> text, denied |-> denied]

\* a directory that does not exist
NoDir == Dir(FALSE, "missing", FALSE, << >>, FALSE)

---------------------------------------------------------------------------
(* generate_readme.py: process_directory and main.                         *)

\* process_directory with the dry-run test of lines 131-138 left out: a
\* missing manifest is an error in either mode
missing_manifest_result_AlwaysError(d, dry_run) ==
    [dir |-> d, result |-> "failed", report |-> "Error",
     existed |-> d.exists /\ d.readme, old |-> << >>, merged |-> << >>,
     diff |-> NoDiff]

\* process_directory, lines 130-138: manifest_path does not exist; README.md
\* is neither opened nor written
missing_manifest_result(d, dry_run) ==
    [dir |-> d, result |-> IF dry_run THEN "ok" ELSE "failed",
     report |-> IF dry_run THEN "Skipped" ELSE "Error",
     existed |-> d.exists /\ d.readme, old |-> << >>, merged |-> << >>,
     diff |-> NoDiff]

\* process_directory(package_dir, dry_run, verbose, alt_manifest_path) on the
\* directory d; alt is the key of the file at alt_manifest_path, or "none".
\* The result: the directory afterwards, result "ok" (True), "failed" (False)
\* or "raised" (an exception left the function), and what was reported.
readme_process_directory(d, dry_run, alt) ==
    LET key == IF alt # "none" THEN alt
               ELSE IF d.exists THEN d.manifest ELSE "missing"
        m == ManifestOf(key)
        existed == d.exists /\ d.readme
    IN  IF key = "missing"
        THEN missing_manifest_result(d, dry_run)
        ELSE IF key \notin ValidManifestKeys
        THEN \* json.load raises outside the try
             [dir |-> d, result |-> "raised", report |-> "Traceback",
              existed |-> existed, old |-> << >>, merged |-> << >>,
              diff |-> NoDiff]
        ELSE IF existed
        THEN IF d.denied
             THEN [dir |-> d, result |-> "failed", report |-> "Error",
                   existed |-> existed, old |-> << >>, merged |-> << >>,
                   diff |-> NoDiff]
             ELSE LET updated_content == update_existing_readme(d.text, m)
                      df == [kind |-> "text"]
                            @@ diff_text(d.text, updated_content, "README.md")
                  IN  [dir |-> IF df.changed /\ ~dry_run
                               THEN [d EXCEPT !.text = updated_content] ELSE d,
                       result |-> "ok",
                       report |-> IF df.changed THEN "Modified" ELSE "NoChange",
                       existed |-> existed, old |-> d.text,
                       merged |-> updated_content, diff |-> df]
        ELSE LET new_content == create_new_readme(m, FALSE)
                 df == [kind |-> "text"] @@ diff_text(<< >>, new_content, "README.md")
             IN  IF dry_run
                 THEN [dir |-> d, result |-> "ok", report |-> "Created",
                       existed |-> existed, old |-> << >>,
                       merged |-> new_content, diff |-> df]
                 ELSE IF d.denied \/ ~d.exists
                 THEN [dir |-> d, result |-> "failed", report |-> "Error",
                       existed |-> existed, old |-> << >>, merged |-> << >>,
                       diff |-> NoDiff]
                 ELSE [dir |-> [d EXCEPT !.readme = TRUE, !.text = new_content],
                       result |-> "ok", report |-> "Created",
                       existed |-> existed, old |-> << >>,
                       merged |-> new_content, diff |-> df]

---------------------------------------------------------------------------
(* generate_shields.py: process_directory and main.                        *)

\* process_directory(package_dir) on the directory d: the directory
\* afterwards and the result, "ok" (True) or "failed" (False)
shields_process_directory(d) ==
    IF ~d.exists \/ d.manifest = "missing"
    THEN [dir |-> d, result |-> "failed"]
    ELSE IF d.manifest \notin ValidManifestKeys
    THEN \* json.load raises inside the try
         [dir |-> d, result |-> "failed"]
    ELSE IF d.readme
    THEN IF d.denied
         THEN [dir |-> d, result |-> "failed"]
         ELSE [dir |-> IF update_readme_updated(d.text, ManifestOf(d.manifest))
                       THEN [d EXCEPT !.text =
                                update_readme_text(d.text, ManifestOf(d.manifest))]
                       ELSE d,
               result |-> "ok"]
    ELSE [dir |-> d, result |-> "ok"]

---------------------------------------------------------------------------
(* The merge, run on every short document: README text in memory, merged   *)
(* once or twice with the same manifest.                                   *)

\* the tokens an input document is made of
Alphabet == {"#", " ", NL, "x", "Install", "Usage", OldVersionBadge, LicenseBadge}

RECURSIVE SeqsUpTo(_, _)
SeqsUpTo(A, n) ==
    IF n = 0 THEN {<< >>}
    ELSE LET shorter == SeqsUpTo(A, n - 1)
         IN  shorter \cup {Append(d, t) : d \in {e \in shorter : Len(e) = n - 1}, t \in A}

\* the tokens of a document that is mostly badges
BadgeAlphabet ==
    {NL, "x", OldVersionBadge, OldStatusBadge, OldPlatformBadge, OldBetaBadge, LicenseBadge}

Docs == SeqsUpTo(Alphabet, MaxLen) \cup SeqsUpTo(BadgeAlphabet, MaxLen)

\* the manifests of the model
Manifests ==
    { Mf("1.2.0", "stable", <<"windows", "mac">>, FALSE, TRUE),
      Mf(Missing, "Archived", << >>, FALSE, TRUE),
      Mf("1.2.0", Missing, << >>, TRUE, FALSE),
      Mf(ParenVersion, "stable", << >>, FALSE, TRUE),
      Mf("1.2.0", "custom", << >>, TRUE, TRUE),
      Mf("1.0.0", "deprecated", <<"linux">>, FALSE, FALSE),
      Mf("1.2.0", "reference", << >>, FALSE, FALSE) }

IdleBatch ==
    /\ fs = << >>
    /\ fs0 = << >>
    /\ tool = "none"
    /\ dryRun = FALSE
    /\ flags = {}
    /\ nDirs = 0
    /\ dirIdx = 0
    /\ successCount = 0
    /\ pc = "idle"
    /\ stages = << >>
    /\ tempManifest = [exists |-> FALSE, key |-> "missing"]
    /\ exitStatus = -1
    /\ reports = << >>
    /\ stageLog = << >>

IdleDiff == oldText = << >> /\ newText = << >> /\ diffResult = NoDiff

IdleMerge ==
    /\ hasReadme = FALSE
    /\ content = << >>
    /\ original = << >>
    /\ previous = << >>
    /\ manifest = Mf(Missing, Missing, << >>, FALSE, FALSE)
    /\ passes = 0
    /\ lastOp = "none"

InitMerge ==
    /\ IdleDiff
    /\ IdleBatch
    /\ hasReadme \in BOOLEAN
    /\ content \in (IF hasReadme THEN Docs ELSE {<< >>})
    /\ original = content
    /\ previous = content
    /\ manifest \in Manifests
    /\ passes = 0
    /\ lastOp = "none"

\* generate_readme.process_directory on an existing README: one merge pass
UpdateExisting ==
    /\ hasReadme
    /\ passes < 2
    /\ lastOp \in {"none", "update", "create"}
    /\ previous' = content
    /\ content' = update_existing_readme(content, manifest)
    /\ passes' = passes + 1
    /\ lastOp' = "update"
    /\ UNCHANGED <<original, manifest, hasReadme, diffVars, batchVars>>

\* generate_readme.process_directory without a README: create_new_readme
CreateNew ==
    /\ ~hasReadme
    /\ hasReadme' = TRUE
    /\ \E preview \in BOOLEAN :
          content' = create_new_readme(manifest, preview)
    /\ previous' = content
    /\ passes' = passes + 1
    /\ lastOp' = "create"
    /\ UNCHANGED <<original, manifest, diffVars, batchVars>>

\* generate_shields.process_directory on an existing README: update_readme,
\* which rewrites the text only when it found a badge to update
ShieldsUpdate ==
    /\ hasReadme
    /\ passes < 2
    /\ lastOp \in {"none", "shields"}
    /\ previous' = content
    /\ content' = IF update_readme_updated(content, manifest)
                  THEN update_readme_text(content, manifest) ELSE content
    /\ passes' = passes + 1
    /\ lastOp' = "shields"
    /\ UNCHANGED <<original, manifest, hasReadme, diffVars, batchVars>>

NextMerge == UpdateExisting \/ CreateNew \/ ShieldsUpdate

SpecMerge == InitMerge /\ [][NextMerge]_vars

---------------------------------------------------------------------------
(* The diff, run on every pair of short texts.                             *)

\* longest text given to the diff, in tokens
MaxDiffLen == 3

DiffAlphabet == {"a", "1", " ", NL}

DiffTexts == SeqsUpTo(DiffAlphabet, MaxDiffLen)

InitDiff ==
    /\ IdleMerge
    /\ IdleBatch
    /\ oldText \in DiffTexts
    /\ newText \in DiffTexts
    /\ diffResult = NoDiff

\* a call of diff_text(old, new, "README.md")
DiffText ==
    /\ diffResult.kind = "none"
    /\ diffResult' = [kind |-> "text"] @@ diff_text(oldText, newText, "README.md")
    /\ UNCHANGED <<oldText, newText, mergeVars, batchVars>>

\* a call of diff_json(old, new, "manifest.json")
DiffJson ==
    /\ diffResult.kind = "none"
    /\ diffResult' = [kind |-> "json"] @@ diff_json(oldText, newText, "manifest.json")
    /\ UNCHANGED <<oldText, newText, mergeVars, batchVars>>

NextDiff == DiffText \/ DiffJson

SpecDiff == InitDiff /\ [][NextDiff]_vars

---------------------------------------------------------------------------
(* A run of generate_readme.py over one or more package directories.       *)

\* most package directories on one command line
NumDirs == 2

\* README texts on disk: empty, without badges, with an old badge, and
\* already merged with the manifest "new"
PlainDoc == << "#", " ", "x", NL, NL, "x" >>

OldDoc == << "#", " ", "x", NL, NL, OldVersionBadge, NL, NL, "x" >>

MergedDoc == update_existing_readme(OldDoc, ManifestOf("new"))

ReadmeTexts == {<< >>, PlainDoc, OldDoc, MergedDoc}

ManifestKeys == {"missing", "invalid"} \cup ValidManifestKeys

DirStates ==
    {NoDir}
    \cup {Dir(TRUE, k, TRUE, t, dn) :
            k \in ManifestKeys, t \in ReadmeTexts, dn \in BOOLEAN}
    \cup {Dir(TRUE, k, FALSE, << >>, dn) : k \in ManifestKeys, dn \in BOOLEAN}

\* one entry of the log of directory results
LogEntry(index, r) ==
    [index |-> index, result |-> r.result, report |-> r.report,
     existed |-> r.existed, old |-> r.old, merged |-> r.merged, diff |-> r.diff]

\* the command lines of the model: no --manifest-path, or --manifest-path
\* with a path where no file is, or where a manifest is
AltManifests ==
    { [flags |-> {}, file |-> [exists |-> FALSE, key |-> "missing"]],
      [flags |-> {"--manifest-path"}, file |-> [exists |-> FALSE, key |-> "missing"]],
      [flags |-> {"--manifest-path"}, file |-> [exists |-> TRUE, key |-> "archived"]] }

\* main, lines 211-220: alt_manifest_path, as what process_directory finds
\* at it ("none" without --manifest-path)
alt_manifest_path(fl, file) ==
    IF "--manifest-path" \notin fl THEN "none"
    ELSE IF file.exists THEN file.key ELSE "missing"

InitReadme ==
    /\ IdleMerge
    /\ IdleDiff
    /\ tool = "generate_readme"
    /\ dryRun \in BOOLEAN
    /\ \E a \in AltManifests :
          /\ flags = a.flags
          /\ tempManifest = a.file
    /\ nDirs \in 1..NumDirs
    /\ fs \in [1..nDirs -> DirStates]
    /\ fs0 = fs
    /\ dirIdx = 1
    /\ successCount = 0
    /\ pc = "main"
    /\ stages = << >>
    /\ exitStatus = -1
    /\ reports = << >>
    /\ stageLog = << >>

\* generate_readme.main, one turn of its loop: process_directory on the next
\* directory; an exception that leaves process_directory ends the process
ReadmeProcessDirectory ==
    /\ tool = "generate_readme"
    /\ pc = "main"
    /\ dirIdx <= nDirs
    /\ LET r == readme_process_directory(fs[dirIdx], dryRun,
                                          alt_manifest_path(flags, tempManifest))
       IN  /\ fs' = [fs EXCEPT ![dirIdx] = r.dir]
           /\ reports' = Append(reports, LogEntry(dirIdx, r))
           /\ IF r.result = "raised"
              THEN /\ pc' = "done"
                   /\ exitStatus' = 1
                   /\ UNCHANGED <<dirIdx, successCount>>
              ELSE /\ dirIdx' = dirIdx + 1
                   /\ successCount' = successCount + (IF r.result = "ok" THEN 1 ELSE 0)
                   /\ UNCHANGED <<pc, exitStatus>>
    /\ UNCHANGED <<fs0, tool, dryRun, flags, nDirs, stages, tempManifest, stageLog,
                   mergeVars, diffVars>>

\* generate_readme.main after its loop: the function returns
ReadmeExit ==
    /\ tool = "generate_readme"
    /\ pc = "main"
    /\ dirIdx > nDirs
    /\ pc' = "done"
    /\ exitStatus' = 0
    /\ UNCHANGED <<fs, fs0, tool, dryRun, flags, nDirs, dirIdx, successCount, stages,
                   tempManifest, reports, stageLog, mergeVars, diffVars>>

NextReadme == ReadmeProcessDirectory \/ ReadmeExit

SpecReadme == InitReadme /\ [][NextReadme]_vars

---------------------------------------------------------------------------
(* A run of generate_all.py over one or more package directories: main,    *)
(* process_directory, and one subprocess per selected generator.           *)

OnlyFlags == {"--manifest-only", "--version-only", "--readme-only",
              "--shields-only", "--install-block-only"}

\* main: which generators the flags select
only_mode(fl) == fl \cap OnlyFlags # {}

run_manifest(fl) ==
    IF only_mode(fl) THEN "--manifest-only" \in fl ELSE "--no-manifest" \notin fl

run_version(fl) ==
    IF only_mode(fl) THEN "--version-only" \in fl ELSE "--no-version" \notin fl

run_readme(fl) ==
    IF only_mode(fl) THEN "--readme-only" \in fl ELSE "--no-readme" \notin fl

run_shields(fl) == IF only_mode(fl) THEN "--shields-only" \in fl ELSE FALSE

run_install_block(fl) ==
    IF only_mode(fl) THEN "--install-block-only" \in fl ELSE FALSE

\* process_directory: the list of generators, in the order it is built
generators(fl) ==
    (IF run_manifest(fl) THEN << "generate_manifest.py" >> ELSE << >>)
    \o (IF run_version(fl) THEN << "generate_version.py" >> ELSE << >>)
    \o (IF run_readme(fl) THEN << "generate_readme.py" >> ELSE << >>)
    \o (IF run_shields(fl) THEN << "generate_shields.py" >> ELSE << >>)
    \o (IF run_install_block(fl) THEN << "generate_install_block.py" >> ELSE << >>)

NoTemp == [exists |-> FALSE, key |-> "missing"]

\* tempfile.NamedTemporaryFile(..., delete=False), closed: an empty file
EmptyTemp == [exists |-> TRUE, key |-> "empty"]

\* the finally of process_directory with os.unlink left out
cleanup_temp_NoUnlink(tmp) == tmp

\* process_directory, lines 134-137: the finally removes the temporary
\* manifest if it is there
cleanup_temp(tmp) == IF tmp.exists THEN NoTemp ELSE tmp

\* one run of a generator as a subprocess: ok (exit status 0), the directory
\* and the temporary manifest afterwards
Outcome(ok, d, tmp) == [ok |-> ok, dir |-> d, temp |-> tmp]

\* generate_manifest.py <dir> --skip-version-check [--dry-run]
\* [--output-manifest-path <temp>]: it fails, or it writes the manifest, to
\* the temporary file in a dry run and to manifest.json otherwise
manifest_generator(d, tmp, dry_run) ==
    LET key == IF d.manifest \in ValidManifestKeys THEN d.manifest ELSE "new"
    IN  { Outcome(FALSE, d, tmp),
          IF dry_run
          THEN Outcome(TRUE, d, IF tmp.exists THEN [exists |-> TRUE, key |-> key]
                                ELSE tmp)
          ELSE Outcome(TRUE, [d EXCEPT !.manifest = key], tmp) }

\* generate_version.py and generate_install_block.py: they fail or succeed,
\* and leave README.md and manifest.json alone
other_generator(d, tmp) == { Outcome(FALSE, d, tmp), Outcome(TRUE, d, tmp) }

\* generate_readme.py <dir> [--dry-run] [--manifest-path <temp>]: main with
\* one directory; the exit status is 0 unless an exception ended the process
readme_generator(d, tmp, dry_run) ==
    { Outcome(r.result # "raised", r.dir, tmp) :
        r \in { readme_process_directory(d, dry_run,
                    IF tmp.exists THEN tmp.key ELSE "none") } }

\* generate_shields.py <dir> [--dry-run]: main takes every argument for a
\* directory; process_directory on "--dry-run" finds no manifest.json there
\* and returns False; the exit status is 0
shields_generator(d, tmp) ==
    { Outcome(TRUE, shields_process_directory(d).dir, tmp) }

\* run_generator(script_name, directory, extra_args) in process_directory
run_generator(script_name, d, tmp, dry_run) ==
    IF script_name = "generate_manifest.py" THEN manifest_generator(d, tmp, dry_run)
    ELSE IF script_name = "generate_readme.py" THEN readme_generator(d, tmp, dry_run)
    ELSE IF script_name = "generate_shields.py" THEN shields_generator(d, tmp)
    ELSE other_generator(d, tmp)

\* the command lines of the model, by their flags other than --dry-run
FlagSets ==
    { {}, {"--no-manifest", "--no-version"}, {"--no-version"},
      {"--no-manifest", "--no-version", "--no-readme"},
      {"--manifest-only"}, {"--version-only"}, {"--readme-only"},
      {"--shields-only"}, {"--install-block-only"},
      {"--readme-only", "--shields-only"} }

AllDirStates ==
    {NoDir}
    \cup {Dir(TRUE, k, TRUE, t, FALSE) :
            k \in ManifestKeys, t \in {OldDoc, MergedDoc}}
    \cup {Dir(TRUE, k, FALSE, << >>, FALSE) : k \in ManifestKeys}

InitAll ==
    /\ IdleMerge
    /\ IdleDiff
    /\ tool = "generate_all"
    /\ dryRun \in BOOLEAN
    /\ flags \in FlagSets
    /\ nDirs \in 1..NumDirs
    /\ fs \in [1..nDirs -> AllDirStates]
    /\ fs0 = fs
    /\ dirIdx = 1
    /\ successCount = 0
    /\ pc = "main"
    /\ stages = << >>
    /\ tempManifest = NoTemp
    /\ exitStatus = -1
    /\ reports = << >>
    /\ stageLog = << >>

\* main, one turn of its loop, and process_directory up to its loop: the
\* directory is missing, or no generator is selected, and it returns False;
\* or the temporary manifest is created and the generators are listed
AllStartDirectory ==
    /\ tool = "generate_all"
    /\ pc = "main"
    /\ dirIdx <= nDirs
    /\ IF ~fs[dirIdx].exists \/ generators(flags) = << >>
       THEN /\ reports' = Append(reports, [index |-> dirIdx, result |-> "failed"])
            /\ dirIdx' = dirIdx + 1
            /\ UNCHANGED <<pc, stages, tempManifest>>
       ELSE /\ tempManifest' = IF dryRun /\ run_manifest(flags) THEN EmptyTemp
                               ELSE NoTemp
            /\ stages' = generators(flags)
            /\ pc' = "stages"
            /\ UNCHANGED <<reports, dirIdx>>
    /\ UNCHANGED <<fs, fs0, tool, dryRun, flags, nDirs, successCount, exitStatus,
                   stageLog, mergeVars, diffVars>>

\* the loop of process_directory without its return on failure: it goes on
\* to the next generator
returns_after_NoFailFast(ok, remaining) == Len(remaining) = 1

\* process_directory, lines 122-133: it returns after this generator when
\* run_generator reported failure, or when the generator was the last one
returns_after(ok, remaining) == ~ok \/ Len(remaining) = 1

\* process_directory, one turn of its loop: run_generator on the next
\* generator; on failure, or after the last one, process_directory returns
\* through its finally, which removes the temporary manifest
AllRunGenerator ==
    /\ tool = "generate_all"
    /\ pc = "stages"
    /\ \E o \in run_generator(Head(stages), fs[dirIdx], tempManifest, dryRun) :
        /\ fs' = [fs EXCEPT ![dirIdx] = o.dir]
        /\ stageLog' = Append(stageLog, [index |-> dirIdx,
                                         generator |-> Head(stages), ok |-> o.ok])
        /\ IF returns_after(o.ok, stages)
           THEN /\ reports' = Append(reports,
                        [index |-> dirIdx,
                         result |-> IF o.ok THEN "ok" ELSE "failed"])
                /\ successCount' = successCount + (IF o.ok THEN 1 ELSE 0)
                /\ tempManifest' = cleanup_temp(o.temp)
                /\ stages' = << >>
                /\ pc' = "main"
                /\ dirIdx' = dirIdx + 1
           ELSE /\ stages' = Tail(stages)
                /\ tempManifest' = o.temp
                /\ UNCHANGED <<reports, successCount, pc, dirIdx>>
    /\ UNCHANGED <<fs0, tool, dryRun, flags, nDirs, exitStatus, mergeVars, diffVars>>

\* run_generator lets an exception other than CalledProcessError pass (its
\* try, lines 32-51, catches only that one), before or after the subprocess
\* has run: process_directory leaves through its finally, main has no
\* handler, and the process ends with a traceback
AllGeneratorRaises ==
    /\ tool = "generate_all"
    /\ pc = "stages"
    /\ \E o \in run_generator(Head(stages), fs[dirIdx], tempManifest, dryRun)
                \cup {Outcome(FALSE, fs[dirIdx], tempManifest)} :
        /\ fs' = [fs EXCEPT ![dirIdx] = o.dir]
        /\ tempManifest' = cleanup_temp(o.temp)
    /\ reports' = Append(reports, [index |-> dirIdx, result |-> "raised"])
    /\ stages' = << >>
    /\ pc' = "done"
    /\ exitStatus' = 1
    /\ UNCHANGED <<fs0, tool, dryRun, flags, nDirs, dirIdx, successCount, stageLog,
                   mergeVars, diffVars>>

\* main after its loop: the completion message, and the function returns
AllExit ==
    /\ tool = "generate_all"
    /\ pc = "main"
    /\ dirIdx > nDirs
    /\ pc' = "done"
    /\ exitStatus' = 0
    /\ UNCHANGED <<fs, fs0, tool, dryRun, flags, nDirs, dirIdx, successCount, stages,
                   tempManifest, reports, stageLog, mergeVars, diffVars>>

NextAll == AllStartDirectory \/ AllRunGenerator \/ AllGeneratorRaises \/ AllExit

SpecAll == InitAll /\ [][NextAll]_vars

---------------------------------------------------------------------------
(* Claims about the merge.                                                 *)

\* the text that reached the install step of the last update pass
AtInstallStep == ShieldStep(previous, manifest)

\* frag occurs in s as a contiguous run of tokens
Contains(s, frag) ==
    \E p \in 0..(Len(s) - Len(frag)) : SubSeq(s, p + 1, p + Len(frag)) = frag

\* a is b with tokens left out (order kept)
RECURSIVE IsSubseq(_, _)
IsSubseq(a, b) ==
    IF Len(a) = 0 THEN TRUE
    ELSE IF Len(b) = 0 THEN FALSE
    ELSE IF Head(a) = Head(b) THEN IsSubseq(Tail(a), Tail(b))
    ELSE IsSubseq(a, Tail(b))

\* C1: idempotence of the README merge: a second update_existing_readme with
\* the same manifest returns the text the first one returned.
C1_Idempotent ==
    (passes = 2 /\ lastOp = "update") => content = previous

\* Idempotence for the manifests whose values hold no ")".
IdempotentWithoutParen ==
    (passes = 2 /\ lastOp = "update" /\ manifest.version # ParenVersion)
        => content = previous

\* the document d without its located badge block (the match of the block
\* pattern, which update_existing_readme replaces)
OutsideBadgeBlock(d, m) ==
    IF should_generate_shields(m) /\ ShieldPositions(d) # {}
    THEN LET i == MinOf(ShieldPositions(d))
         IN  Prefix(d, i - 1) \o Suffix(d, BlockEnd(d, i + 1))
    ELSE d

\* C3: preservation: every token of the document outside the located badge
\* block is in the output of update_existing_readme, in the same order.
C3_Preserved ==
    (passes = 1 /\ lastOp = "update")
        => IsSubseq(OutsideBadgeBlock(previous, manifest), content)

\* the manifest's status, lower-cased, is none of reference, archived,
\* deprecated (a missing status is the empty string)
StatusAllowsInstall(m) ==
    Lower(IF m.status = Missing THEN "" ELSE m.status)
        \notin {"reference", "archived", "deprecated"}

\* Status gating relative to the detection the code makes: when the install
\* pattern finds nothing in the text at the install step,
\* update_existing_readme inserts the install section if and only if the
\* lower-cased status is none of reference, archived, deprecated (missing and
\* unrecognized statuses insert); create_new_readme applies the same gate.
C4_StatusGating ==
    /\ (lastOp = "update" /\ ~HasInstallSection(AtInstallStep))
          => IF StatusAllowsInstall(manifest)
             THEN /\ Contains(content, generate_installation_markdown(manifest))
                  /\ Len(content) > Len(AtInstallStep)
             ELSE content = AtInstallStep
    /\ lastOp = "create"
          => (Contains(content, generate_installation_markdown(manifest))
                <=> StatusAllowsInstall(manifest))

\* A manifest without status, a document without install heading,
\* and the install section inserted.
C4_Witness ==
    /\ lastOp = "update"
    /\ passes = 1
    /\ manifest.status = Missing
    /\ Len(previous) > 0
    /\ ~HasInstallSection(AtInstallStep)
    /\ Contains(content, generate_installation_markdown(manifest))

\* One line of s, from its first token p to its end, is a heading of level
\* 1-6 whose text holds Installation, Install or Setup as a whole word.
InstallHeadingLineAt(s, p) ==
    /\ LineStart(s, p)
    /\ \E h \in 1..6 :
         /\ p + h < LineEnd(s, p)
         /\ \A j \in p..(p + h - 1) : s[j] = "#"
         /\ s[p + h] = " "
         /\ \E q \in (p + h + 1)..(LineEnd(s, p) - 1) :
               /\ s[q] \in InstallWords
               /\ ~IsWordTok(s[q - 1])
               /\ (q + 1 = LineEnd(s, p) \/ ~IsWordTok(s[q + 1]))

HasInstallHeadingLine(s) == \E p \in 1..Len(s) : InstallHeadingLineAt(s, p)

\* C5: existing install section wins: when the text at the install step holds
\* an install heading line, the install step changes nothing, whatever the
\* manifest's status.
C5_ExistingSectionWins ==
    (lastOp = "update" /\ HasInstallHeadingLine(AtInstallStep))
        => content = AtInstallStep

\* C5 witness: a document that came with its own install heading, a status
\* that allows insertion, and an install step that changed nothing.
C5_Witness ==
    /\ lastOp = "update"
    /\ passes = 1
    /\ HasInstallHeadingLine(previous)
    /\ HasInstallHeadingLine(AtInstallStep)
    /\ StatusAllowsInstall(manifest)
    /\ content = AtInstallStep

\* the recognized badges of a text, in order
BadgesIn(s) == SelectSeq(s, IsShield)

\* the badges generate_shields renders, in order
RenderedBadges(m) ==
    LET shields == generate_shields(m)
    IN  [i \in 1..Len(shields) |-> shields[i][1]]

\* C6: wholesale badge regeneration: after a merge (update_existing_readme or
\* generate_shields.update_readme) of a document that holds recognized
\* badges, the recognized badges of the result are exactly the badges
\* generate_shields renders from the manifest.
C6_WholesaleBadges ==
    (/\ passes = 1
     /\ lastOp \in {"update", "shields"}
     /\ should_generate_shields(manifest)
     /\ ShieldPositions(previous) # {})
        => BadgesIn(content) = RenderedBadges(manifest)

\* C6 on update_existing_readme alone
WholesaleInUpdateExisting ==
    (/\ passes = 1
     /\ lastOp = "update"
     /\ should_generate_shields(manifest)
     /\ ShieldPositions(previous) # {})
        => BadgesIn(content) = RenderedBadges(manifest)

\* C6 on generate_shields.update_readme alone
WholesaleInUpdateReadme ==
    (/\ passes = 1
     /\ lastOp = "shields"
     /\ ShieldPositions(previous) # {})
        => BadgesIn(content) = RenderedBadges(manifest)

\* One line of s, from its first token p, is a heading of level 1-6 whose
\* text is exactly one of Usage, Features, License, Contributing, API.
AnchorLineAt(s, p) ==
    /\ LineStart(s, p)
    /\ \E h \in 1..6, w \in 1..Len(s) :
         /\ p + h + w <= Len(s)
         /\ \A j \in p..(p + h - 1) : s[j] = "#"
         /\ \A j \in (p + h)..(p + h + w - 1) : s[j] = " "
         /\ s[p + h + w] \in SectionWords
         /\ \A j \in (p + h + w + 1)..(LineEnd(s, p) - 1) : s[j] = " "

AnchorLines(s) == {p \in 1..Len(s) : AnchorLineAt(s, p)}

\* C12: install-section anchor: when the text at the install step has no
\* install section and the status allows insertion, the install text is
\* inserted immediately before the earliest heading line whose text is exactly
\* one of Usage, Features, License, Contributing, API; without such a heading
\* it is appended at the end of the document.
C12_InstallAnchor ==
    (/\ lastOp = "update"
     /\ StatusAllowsInstall(manifest)
     /\ ~HasInstallSection(AtInstallStep)
     /\ ~HasInstallHeadingLine(AtInstallStep))
        => IF AnchorLines(AtInstallStep) # {}
           THEN content =
                    Prefix(AtInstallStep, MinOf(AnchorLines(AtInstallStep)) - 1)
                    \o generate_installation_markdown(manifest) \o << NL, NL >>
                    \o Suffix(AtInstallStep, MinOf(AnchorLines(AtInstallStep)))
           ELSE /\ Len(content) > Len(generate_installation_markdown(manifest))
                /\ Suffix(content, Len(content)
                            - Len(generate_installation_markdown(manifest)))
                      = generate_installation_markdown(manifest) \o << NL >>
                /\ Prefix(content, Len(RStrip(AtInstallStep)))
                      = RStrip(AtInstallStep)

\* C12 where every anchor the code finds is a heading line: the anchor rule
\* holds there.
AnchorWhenLineAnchored ==
    (/\ lastOp = "update"
     /\ StatusAllowsInstall(manifest)
     /\ ~HasInstallSection(AtInstallStep)
     /\ ~HasInstallHeadingLine(AtInstallStep)
     /\ CommonSectionStarts(AtInstallStep) = AnchorLines(AtInstallStep))
        => IF AnchorLines(AtInstallStep) # {}
           THEN content =
                    Prefix(AtInstallStep, MinOf(AnchorLines(AtInstallStep)) - 1)
                    \o generate_installation_markdown(manifest) \o << NL, NL >>
                    \o Suffix(AtInstallStep, MinOf(AnchorLines(AtInstallStep)))
           ELSE Prefix(content, Len(RStrip(AtInstallStep))) = RStrip(AtInstallStep)

\* C4: status gating: when the text at the install step has no install
\* heading line, update_existing_readme inserts the install section if and
\* only if the lower-cased status is none of reference, archived, deprecated
\* (missing and unrecognized statuses insert); create_new_readme applies the
\* same gate.
C4_StatusGatingOnHeadingLines ==
    /\ (lastOp = "update" /\ ~HasInstallHeadingLine(AtInstallStep))
          => IF StatusAllowsInstall(manifest)
             THEN /\ Contains(content, generate_installation_markdown(manifest))
                  /\ Len(content) > Len(AtInstallStep)
             ELSE content = AtInstallStep
    /\ lastOp = "create"
          => (Contains(content, generate_installation_markdown(manifest))
                <=> StatusAllowsInstall(manifest))

\* C13: line-anchored heading detection: an install section is detected only
\* when one line starts with 1-6 '#' and whitespace and holds Installation,
\* Install or Setup as a whole word; the words on another line, or inside a
\* longer word, do not count and do not suppress the insertion.
C13_LineAnchoredDetection ==
    lastOp = "update" =>
        /\ HasInstallSection(AtInstallStep) => HasInstallHeadingLine(AtInstallStep)
        /\ (StatusAllowsInstall(manifest) /\ ~HasInstallHeadingLine(AtInstallStep))
              => /\ content # AtInstallStep
                 /\ Contains(content, generate_installation_markdown(manifest))

\* in s no run of whitespace after the '#' of a heading holds a line break
NoBreakAfterHashes(s) ==
    \A p \in 1..Len(s), h \in 1..6 :
        HeadingPrefix(s, p, h)
            => \A j \in (p + h)..(WsRunEnd(s, p + h) - 1) : s[j] # NL

\* C13 on the texts where no line break follows the '#' of a heading directly
\* or after blanks: there the detection is line-anchored.
LineAnchoredWithoutBreak ==
    (lastOp = "update" /\ NoBreakAfterHashes(AtInstallStep)) =>
        /\ HasInstallSection(AtInstallStep) <=> HasInstallHeadingLine(AtInstallStep)
        /\ (StatusAllowsInstall(manifest) /\ ~HasInstallHeadingLine(AtInstallStep))
              => /\ content # AtInstallStep
                 /\ Contains(content, generate_installation_markdown(manifest))

---------------------------------------------------------------------------
(* Claims about the diff.                                                  *)

\* every "@@ -l,s +l,s @@" a diff of two texts of the model can hold
HunkHeaders ==
    {"@@ -" \o format_range_unified(s1, e1) \o " +" \o format_range_unified(s2, e2)
        \o " @@" :
        s1 \in 0..MaxDiffLen, e1 \in 0..MaxDiffLen, s2 \in 0..MaxDiffLen,
        e2 \in 0..MaxDiffLen}

\* a file header or a hunk header of a diff
IsDiffHeader(t) ==
    \/ t \in {FromFileHeader("README.md"), ToFileHeader("README.md")}
    \/ t \in {FromFileHeader("manifest.json"), ToFileHeader("manifest.json")}
    \/ t \in HunkHeaders

\* C10: unified-diff layout: in the diff string of two differing texts, the
\* two file headers and every hunk header are each followed by a line break.
C10_HeadersOnOwnLines ==
    diffResult.changed =>
        /\ \E p \in 1..Len(diffResult.diff) : IsDiffHeader(diffResult.diff[p])
        /\ \A p \in 1..Len(diffResult.diff) :
              IsDiffHeader(diffResult.diff[p])
                  => (p < Len(diffResult.diff) /\ diffResult.diff[p + 1] = NL)


---------------------------------------------------------------------------
(* Claims about a run of generate_readme.py.                               *)

\* a directory's report is one of the three classifications
Classified(r) == r.report \in {"Created", "Modified", "NoChange"}

\* the classification by the file's existence and the equality of the texts
ClassifiedByRule(r) ==
    /\ (r.report = "Created") <=> ~r.existed
    /\ (r.report = "NoChange") <=> (r.existed /\ r.merged = r.old)
    /\ r.report = "NoChange" => (~r.diff.changed /\ r.diff.diff = << >>)
    /\ r.report = "Modified" => (r.diff.changed /\ r.diff.diff # << >>)

\* C7: failure isolation across a batch: once the run has ended, every
\* directory of the command line has been processed and has its report,
\* whatever went wrong in the directories before it.
C7_FailureIsolation ==
    pc = "done" =>
        \A i \in 1..nDirs :
            \E k \in 1..Len(reports) :
                reports[k].index = i /\ reports[k].result \in {"ok", "failed"}

\* C9 as stated: Created exactly when README.md did not exist, otherwise
\* NoChange exactly when the merged text equals the original (diff_text
\* returns (False, "")) and Modified (True, a non-empty diff) otherwise; and
\* an existing but empty document is classified Created.
C9_ClassificationAsStated ==
    \A k \in 1..Len(reports) :
        Classified(reports[k]) =>
            /\ ClassifiedByRule(reports[k])
            /\ (reports[k].existed /\ reports[k].old = << >>)
                  => reports[k].report = "Created"

\* What process_directory does keep of the classification: every directory
\* it reports on without error is Created exactly when README.md did not
\* exist, otherwise NoChange exactly when the merged text equals the original
\* (diff_text returns (False, "")) and Modified (True, a non-empty diff)
\* otherwise. The branch is on the file's existence alone, so an existing
\* empty document is never Created.
C9_Classification ==
    \A k \in 1..Len(reports) :
        (reports[k].result = "ok" /\ reports[k].report # "Skipped") =>
            /\ Classified(reports[k])
            /\ ClassifiedByRule(reports[k])

\* a run that created one README.md and found another one existing and
\* empty, which it reports as Modified
C9_Witness ==
    /\ pc = "done"
    /\ \E k \in 1..Len(reports) :
          ~reports[k].existed /\ reports[k].report = "Created"
    /\ \E k \in 1..Len(reports) :
          /\ reports[k].existed
          /\ reports[k].old = << >>
          /\ reports[k].report = "Modified"
          /\ reports[k].diff.changed

\* the manifest that process_directory looks for, for directory i, is not
\* there: the file at --manifest-path when given, else manifest.json
ManifestAbsent(i) ==
    IF "--manifest-path" \in flags THEN ~tempManifest.exists
    ELSE ~(fs0[i].exists /\ fs0[i].manifest # "missing")

\* C11: missing manifest handling: when manifest.json (or the file at the
\* alternate manifest path) does not exist, process_directory reports it,
\* reads nothing of README.md and leaves README.md as it was; it returns
\* success (skipped) in dry-run mode and failure in apply mode.
C11_MissingManifest ==
    \A k \in 1..Len(reports) :
        ManifestAbsent(reports[k].index) =>
            /\ reports[k].report = (IF dryRun THEN "Skipped" ELSE "Error")
            /\ reports[k].result = (IF dryRun THEN "ok" ELSE "failed")
            /\ reports[k].old = << >>
            /\ reports[k].merged = << >>
            /\ reports[k].diff = NoDiff
            /\ fs[reports[k].index] = fs0[reports[k].index]

\* C11 witness: a dry run with --manifest-path at a path without a file, on
\* a directory that has its own manifest.json and a README.md that cannot be
\* opened: the directory is skipped with success.
C11_Witness ==
    \E k \in 1..Len(reports) :
        /\ dryRun
        /\ "--manifest-path" \in flags
        /\ ~tempManifest.exists
        /\ fs0[reports[k].index].manifest = "new"
        /\ fs0[reports[k].index].readme
        /\ fs0[reports[k].index].denied
        /\ reports[k].report = "Skipped"
        /\ reports[k].result = "ok"

---------------------------------------------------------------------------
(* Claims about a run of generate_all.py.                                  *)

\* C2: dry-run purity: in a run started with --dry-run, whatever generators
\* are selected, README.md of every directory is as it was before the run.
C2_DryRunPurity ==
    dryRun =>
        \A i \in 1..nDirs :
            fs[i].readme = fs0[i].readme /\ fs[i].text = fs0[i].text

\* C8: aggregate exit status: when the run has ended, the exit status is
\* non-zero exactly when at least one directory failed
\* (success_count < total_count).
C8_AggregateExitStatus ==
    pc = "done" => ((exitStatus # 0) <=> (successCount < nDirs))

\* process_directory created a temporary manifest for the directory it was
\* started on: a dry run with the manifest stage selected, on a directory
\* that exists
TempCreatedFor(i) == dryRun /\ run_manifest(flags) /\ fs0[i].exists

\* C14: temporary manifest cleanup: the temporary manifest that
\* process_directory created no longer exists once process_directory has
\* returned or raised, whichever way it left.
C14_TempManifestCleanup ==
    pc # "stages" => ~tempManifest.exists

\* C14 witness: a temporary manifest was created and written by the manifest
\* stage, the version stage failed, process_directory has returned False, and
\* the file is gone.
C14_Witness ==
    /\ pc = "main"
    /\ ~tempManifest.exists
    /\ \E k \in 1..Len(reports) :
          /\ TempCreatedFor(reports[k].index)
          /\ reports[k].result = "failed"
          /\ \E a, b \in 1..Len(stageLog) :
                /\ stageLog[a].index = reports[k].index
                /\ stageLog[a].generator = "generate_manifest.py"
                /\ stageLog[a].ok
                /\ stageLog[b].index = reports[k].index
                /\ stageLog[b].generator = "generate_version.py"
                /\ ~stageLog[b].ok

\* A temporary manifest was created, an exception left process_directory, and
\* the file is gone.
CleanupWhenRaised ==
    (/\ pc = "done"
     /\ exitStatus = 1
     /\ TempCreatedFor(dirIdx))
        => ~tempManifest.exists

\* the fixed order of the stages
StageRank(g) ==
    CASE g = "generate_manifest.py" -> 1
      [] g = "generate_version.py" -> 2
      [] g = "generate_readme.py" -> 3
      [] g = "generate_shields.py" -> 4
      [] g = "generate_install_block.py" -> 5

\* the stage is selected by the flags of the command line
StageSelected(g) ==
    CASE g = "generate_manifest.py" -> run_manifest(flags)
      [] g = "generate_version.py" -> run_version(flags)
      [] g = "generate_readme.py" -> run_readme(flags)
      [] g = "generate_shields.py" -> run_shields(flags)
      [] g = "generate_install_block.py" -> run_install_block(flags)

\* C15: stage ordering and fail-fast: for each directory the stages run are
\* selected ones, in the order manifest, version, readme, shields,
\* install-block, none skipped before a stage that ran; after a stage for
\* which run_generator reported failure no later stage runs for that directory
\* and process_directory returns False; and the directories after it are
\* still processed (when the run ends without an exception, every directory
\* has its result).
C15_StageOrderFailFast ==
    /\ \A a \in 1..Len(stageLog) :
          /\ StageSelected(stageLog[a].generator)
          /\ \A g \in {"generate_manifest.py", "generate_version.py",
                       "generate_readme.py", "generate_shields.py",
                       "generate_install_block.py"} :
                (StageSelected(g) /\ StageRank(g) < StageRank(stageLog[a].generator))
                    => \E b \in 1..(a - 1) :
                          /\ stageLog[b].index = stageLog[a].index
                          /\ stageLog[b].generator = g
                          /\ stageLog[b].ok
    /\ \A a, b \in 1..Len(stageLog) :
          a < b =>
              /\ stageLog[a].index <= stageLog[b].index
              /\ stageLog[a].index = stageLog[b].index
                    => /\ StageRank(stageLog[a].generator)
                            < StageRank(stageLog[b].generator)
                       /\ stageLog[a].ok
    /\ \A a \in 1..Len(stageLog) :
          ~stageLog[a].ok =>
              /\ \E k \in 1..Len(reports) :
                    /\ reports[k].index = stageLog[a].index
                    /\ reports[k].result = "failed"
              /\ \/ dirIdx > stageLog[a].index
                 \/ pc = "done"
    /\ (pc = "done" /\ exitStatus = 0)
          => \A i \in 1..nDirs :
                \E k \in 1..Len(reports) :
                    reports[k].index = i /\ reports[k].result \in {"ok", "failed"}

\* C15 witness: all three default stages selected; for the first directory
\* the manifest stage succeeded and the version stage failed, so its readme
\* stage never ran; the second directory was still processed, through all
\* three stages.
C15_Witness ==
    /\ pc = "done"
    /\ exitStatus = 0
    /\ flags = {}
    /\ nDirs = 2
    /\ Len(stageLog) = 5
    /\ stageLog[1] = [index |-> 1, generator |-> "generate_manifest.py", ok |-> TRUE]
    /\ stageLog[2] = [index |-> 1, generator |-> "generate_version.py", ok |-> FALSE]
    /\ stageLog[3].index = 2
    /\ stageLog[5] = [index |-> 2, generator |-> "generate_readme.py", ok |-> TRUE]
    /\ reports[1].result = "failed"
    /\ reports[2].result = "ok"

=============================================================================
